---- MODULE Spec2Model ----
(***************************************************************************)
(* NERAdapterModel (xlm/UniBridgeSrc/NER/model.py): the constructor, which *)
(* selects a base model class, loads or creates the language and task      *)
(* adapters, activates them and puts the task adapter in training mode;    *)
(* save_pretrained; and forward.                                           *)
(*                                                                         *)
(* The underlying model (BertAdapterModel / XLMRobertaAdapterModel) is     *)
(* represented by the adapter state the constructor's calls act on: the    *)
(* registered adapters, the prediction heads, the active setup, the active *)
(* head and the set of trainable components.                               *)
(***************************************************************************)
EXTENDS Integers, Sequences, FiniteSets, TLC

\* ---------------------------------------------------------------- bounds
MaxLabels == 3        \* label counts range over 2..MaxLabels

\* ---------------------------------------------------------------- inputs
ValidModels == {"mbert", "mbert_cased", "xlm-r"}
Models == ValidModels \cup {"roberta"}
Langs == {"vi", "am"}
PretrainedCks == {"", "ck/base"}
LangAdapterCkpts == {"", "ck/lang"}
TaskAdapterCkpts == {"", "ck/task"}
LabelCounts == 2..MaxLabels
Paths == {"out", "tmp"}

Configs ==
    [model : Models, pretrained_ck : PretrainedCks,
     lang_adapter_ckpt : LangAdapterCkpts, task_adapter_ckpt : TaskAdapterCkpts,
     lang : Langs, num_labels : LabelCounts, use_return_dict : BOOLEAN]

TensorArgs ==
    {"input_ids", "attention_mask", "token_type_ids", "position_ids",
     "head_mask", "inputs_embeds", "labels"}
OptBool == {"None", "True", "False"}

VARIABLES
    config,            \* the NERAdapterConfig given to the constructor
    ckpt_num_labels,   \* size of the head stored in config.task_adapter_ckpt (0: no checkpoint)
    pc,                \* position in __init__, "done" once the object exists
    err,               \* exception that ended the constructor, or "none"
    basemodel_class,   \* the local basemodel_class, "unbound" while unassigned
    base_built,        \* base models built: <<[class, origin]>>
    adapter_mode,      \* the local adapter_mode
    adapters,          \* adapters registered on self.model, in order
    heads,             \* prediction heads of self.model: {[name, num_labels]}
    active_adapters,   \* the active adapter setup of self.model
    active_head,       \* name of the active head, "" if none
    trainable,         \* components of self.model with requires_grad
    calls,             \* adapter API calls made by the constructor, in order
    fs_dirs,           \* directories that exist
    fs_files,          \* what has been saved: {[dir, kind, name, with_head]}
    last_save,         \* the last save_pretrained call
    fwd_args,          \* arguments of the last forward call
    fwd_received,      \* keyword arguments the underlying model received
    fwd_out            \* what forward returned (or raised)

vars ==
    <<config, ckpt_num_labels, pc, err, basemodel_class, base_built, adapter_mode,
      adapters, heads, active_adapters, active_head, trainable, calls,
      fs_dirs, fs_files, last_save, fwd_args, fwd_received, fwd_out>>

ctorVars == <<pc, err, basemodel_class, base_built, adapter_mode>>
modelVars == <<adapters, heads, active_adapters, active_head, trainable, calls>>
fsVars == <<fs_dirs, fs_files, last_save>>
fwdVars == <<fwd_args, fwd_received, fwd_out>>

\* ---------------------------------------------------------------- helpers
\* f"{config.lang}_ner"
TaskName(lang) == lang \o "_ner"

\* f"{path}/{self.config.lang}"
SaveDir(path, lang) == path \o "/" \o lang

\* truth value of a str object: only the empty string is falsy
Truthy(s) == s # ""

AssertRaises_Always(s) == TRUE

\* `assert <expr>` raises AssertionError exactly when <expr> is falsy
AssertRaises(s) == ~Truthy(s)

\* message of the model-selection else-branch
ModelMessage(tag) ==
    "parameter `model` for NERAdapterModel must be either ['mbert', 'xlm-r'], "
        \o tag \o " does not belong to that."

\* message of the adapter-mode else-branch
ModeMessage(mode) == "Unknown adapter mode of " \o ToString(mode)

BaseModelClass_OnlyMbert(tag) ==
    IF tag = "mbert" THEN "BertAdapterModel"
    ELSE IF tag = "xlm-r" THEN "XLMRobertaAdapterModel"
    ELSE "unbound"

BaseModelClass_DefaultBert(tag) ==
    IF tag = "xlm-r" THEN "XLMRobertaAdapterModel" ELSE "BertAdapterModel"

\* the class bound to basemodel_class by the if/elif chain
BaseModelClass(tag) ==
    IF tag \in {"mbert", "mbert_cased"} THEN "BertAdapterModel"
    ELSE IF tag = "xlm-r" THEN "XLMRobertaAdapterModel"
    ELSE "unbound"

\* how the base model object is obtained
BaseModelOrigin(pretrained_ck) ==
    IF pretrained_ck = "" THEN "from_config" ELSE "from_pretrained"

AdapterMode_AlwaysTwo(lang_adapter_ckpt) == 2

\* adapter_mode after the language-adapter conditional
AdapterMode(lang_adapter_ckpt) == IF lang_adapter_ckpt = "" THEN 1 ELSE 2

LoadsTaskAdapter_Inverted(task_adapter_ckpt) == task_adapter_ckpt = ""

\* line 73: the task adapter is loaded when a checkpoint is given, else created
LoadsTaskAdapter(task_adapter_ckpt) == task_adapter_ckpt # ""

\* argument of set_active_adapters for a mode (<<>>: not called)
ActiveSetup(mode, lang) ==
    IF mode = 1 THEN <<TaskName(lang)>>
    ELSE IF mode = 2 THEN <<lang, TaskName(lang)>>
    ELSE <<>>

TrainSetup_WithLang(lang) == <<lang, TaskName(lang)>>

\* argument of train_adapter
TrainSetup(lang) == <<TaskName(lang)>>

Range(s) == {s[i] : i \in DOMAIN s}

\* load_adapter / add_adapter register a name once
Register(regs, name) == IF name \in Range(regs) THEN regs ELSE Append(regs, name)

\* a head of the given name replaces any head of that name
WithHead(hs, name, n) == {h \in hs : h.name # name} \cup {[name |-> name, num_labels |-> n]}

\* set_active_adapters selects the head named like the last adapter of the setup
HeadFor(setup, hs, current) ==
    IF Len(setup) > 0 /\ \E h \in hs : h.name = setup[Len(setup)]
    THEN setup[Len(setup)] ELSE current

Call(op, names, arg) == [op |-> op, names |-> names, arg |-> arg]

\* ---------------------------------------------------------------- Init
NoArgs == [a \in TensorArgs |-> "None"]

Init ==
    /\ config \in Configs
    /\ ckpt_num_labels \in (IF config.task_adapter_ckpt = "" THEN {0} ELSE LabelCounts)
    /\ pc = "select"
    /\ err = "none"
    /\ basemodel_class = "unbound"
    /\ base_built = <<>>
    /\ adapter_mode = 0
    /\ adapters = <<>>
    /\ heads = {}
    /\ active_adapters = <<>>
    /\ active_head = ""
    /\ trainable = {"base"}
    /\ calls = <<>>
    /\ fs_dirs = {}
    /\ fs_files = {}
    /\ last_save = [path |-> "", existed |-> FALSE, written |-> {}, error |-> "none"]
    /\ fwd_args = [tensors |-> NoArgs, output_attentions |-> "None",
                   output_hidden_states |-> "None", return_dict |-> "None"]
    /\ fwd_received = << >>
    /\ fwd_out = [kind |-> "none", entry |-> "", last_dim |-> 0]

\* ---------------------------------------------------------------- __init__
\* lines 51-56: the if/elif/else that binds basemodel_class
SelectBaseModel ==
    /\ pc = "select"
    /\ basemodel_class' = BaseModelClass(config.model)
    /\ IF BaseModelClass(config.model) = "unbound" /\ AssertRaises(ModelMessage(config.model))
       THEN pc' = "raised" /\ err' = "AssertionError"
       ELSE pc' = "create" /\ err' = err
    /\ UNCHANGED <<config, ckpt_num_labels, base_built, adapter_mode>>
    /\ UNCHANGED <<modelVars, fsVars, fwdVars>>

\* lines 58-63: build self.model
CreateBaseModel ==
    /\ pc = "create"
    /\ IF basemodel_class = "unbound"
       THEN /\ pc' = "raised"
            /\ err' = "UnboundLocalError"
            /\ base_built' = base_built
       ELSE /\ pc' = "lang_adapter"
            /\ err' = err
            /\ base_built' = Append(base_built,
                   [class |-> basemodel_class,
                    origin |-> BaseModelOrigin(config.pretrained_ck)])
    /\ UNCHANGED <<config, ckpt_num_labels, basemodel_class, adapter_mode>>
    /\ UNCHANGED <<modelVars, fsVars, fwdVars>>

\* lines 65-71: the language adapter
LangAdapter ==
    /\ pc = "lang_adapter"
    /\ adapter_mode' = AdapterMode(config.lang_adapter_ckpt)
    /\ IF config.lang_adapter_ckpt = ""
       THEN UNCHANGED <<adapters, trainable, calls>>
       ELSE \* self.model.load_adapter(config.lang_adapter_ckpt, load_as=config.lang, ...)
            /\ adapters' = Register(adapters, config.lang)
            /\ trainable' = trainable \cup {config.lang}
            /\ calls' = Append(calls,
                   Call("load_adapter", <<config.lang>>, config.lang_adapter_ckpt))
    /\ pc' = "task_adapter"
    /\ UNCHANGED <<config, ckpt_num_labels, err, basemodel_class, base_built>>
    /\ UNCHANGED <<heads, active_adapters, active_head, fsVars, fwdVars>>

\* lines 73-81: the task adapter and its head
TaskAdapter ==
    /\ pc = "task_adapter"
    /\ adapters' = Register(adapters, TaskName(config.lang))
    /\ trainable' = trainable \cup {TaskName(config.lang)}
    /\ active_head' = TaskName(config.lang)
    /\ IF LoadsTaskAdapter(config.task_adapter_ckpt)
       THEN \* load_adapter(config.task_adapter_ckpt, load_as=...): the head comes
            \* from the checkpoint
            /\ heads' = WithHead(heads, TaskName(config.lang), ckpt_num_labels)
            /\ calls' = Append(calls,
                   Call("load_adapter", <<TaskName(config.lang)>>, config.task_adapter_ckpt))
       ELSE \* add_adapter, then add_tagging_head(num_labels=config.num_labels)
            /\ heads' = WithHead(heads, TaskName(config.lang), config.num_labels)
            /\ calls' = calls \o
                   <<Call("add_adapter", <<TaskName(config.lang)>>, "pfeiffer"),
                     Call("add_tagging_head", <<TaskName(config.lang)>>,
                          ToString(config.num_labels))>>
    /\ pc' = "activate"
    /\ UNCHANGED <<config, ckpt_num_labels, err, basemodel_class, base_built, adapter_mode>>
    /\ UNCHANGED <<active_adapters, fsVars, fwdVars>>

\* lines 83-88: set_active_adapters according to adapter_mode
Activate ==
    /\ pc = "activate"
    /\ IF adapter_mode \in {1, 2}
       THEN /\ active_adapters' = ActiveSetup(adapter_mode, config.lang)
            /\ active_head' = HeadFor(ActiveSetup(adapter_mode, config.lang), heads, active_head)
            /\ calls' = Append(calls,
                   Call("set_active_adapters", ActiveSetup(adapter_mode, config.lang), ""))
            /\ pc' = "train"
            /\ err' = err
       ELSE /\ UNCHANGED <<active_adapters, active_head, calls>>
            /\ IF AssertRaises(ModeMessage(adapter_mode))
               THEN pc' = "raised" /\ err' = "AssertionError"
               ELSE pc' = "train" /\ err' = err
    /\ UNCHANGED <<config, ckpt_num_labels, basemodel_class, base_built, adapter_mode>>
    /\ UNCHANGED <<adapters, heads, trainable, fsVars, fwdVars>>

\* train_adapter(setup) freezes the base model with every adapter in it and
\* unfreezes the adapters of the setup
TrainableAfterTrain(setup) == Range(setup)

\* train_adapter(setup) of the adapter library ends with
\* self.set_active_adapters(setup) ("use the adapters to be trained by default
\* in every forward pass"): the adapters being trained become the active
\* setup, whatever was active before
ActiveAfterTrain(setup, current) == setup

\* lines 89-91: train_adapter, then self.config = config
TrainAdapter ==
    /\ pc = "train"
    /\ trainable' = TrainableAfterTrain(TrainSetup(config.lang))
    /\ active_adapters' = ActiveAfterTrain(TrainSetup(config.lang), active_adapters)
    /\ active_head' =
           HeadFor(ActiveAfterTrain(TrainSetup(config.lang), active_adapters), heads, active_head)
    /\ calls' = Append(calls, Call("train_adapter", TrainSetup(config.lang), ""))
    /\ pc' = "done"
    /\ UNCHANGED <<config, ckpt_num_labels, err, basemodel_class, base_built, adapter_mode>>
    /\ UNCHANGED <<adapters, heads, fsVars, fwdVars>>

\* ---------------------------------------------------------------- save_pretrained
ConfigFile(dir) == [dir |-> dir, kind |-> "config", name |-> "", with_head |-> FALSE]
AdapterFile(dir, name, withHead) ==
    [dir |-> dir, kind |-> "adapter", name |-> name, with_head |-> withHead]

\* what one save_pretrained call writes
SavedFiles(path, lang) ==
    {ConfigFile(SaveDir(path, lang)), AdapterFile(SaveDir(path, lang), TaskName(lang), TRUE)}

NeedsMakeDirs_Always(dirs, dir) == TRUE

\* line 96: whether os.makedirs is called
NeedsMakeDirs(dirs, dir) == dir \notin dirs

\* os.makedirs creates the leaf and its missing ancestors; it raises
\* FileExistsError when the leaf exists
MakeDirs(dirs, path, lang) == dirs \cup {path, SaveDir(path, lang)}

\* lines 95-100
SavePretrained(path) ==
    /\ pc = "done"
    /\ IF NeedsMakeDirs(fs_dirs, SaveDir(path, config.lang))
          /\ SaveDir(path, config.lang) \in fs_dirs
       THEN /\ last_save' = [path |-> path, existed |-> TRUE, written |-> {},
                             error |-> "FileExistsError"]
            /\ UNCHANGED <<fs_dirs, fs_files>>
       ELSE /\ fs_dirs' = IF NeedsMakeDirs(fs_dirs, SaveDir(path, config.lang))
                          THEN MakeDirs(fs_dirs, path, config.lang)
                          ELSE fs_dirs
            /\ fs_files' = fs_files \cup SavedFiles(path, config.lang)
            /\ last_save' = [path |-> path,
                             existed |-> SaveDir(path, config.lang) \in fs_dirs,
                             written |-> SavedFiles(path, config.lang),
                             error |-> "none"]
    /\ UNCHANGED <<config, ckpt_num_labels, ctorVars, modelVars, fwdVars>>

\* ---------------------------------------------------------------- forward
\* the tensor arguments that are not None: none, any one alone, or all
ProvidedSets == {{}, TensorArgs} \cup {{x} : x \in TensorArgs}

ForwardArgs ==
    {a \in [tensors : [TensorArgs -> {"None", "t"}],
            output_attentions : {"None", "True"},
            output_hidden_states : {"None", "True"},
            return_dict : OptBool] :
        {x \in TensorArgs : a.tensors[x] # "None"} \in ProvidedSets}

\* line 115
ReturnDict(given, useReturnDict) ==
    IF given # "None" THEN given ELSE IF useReturnDict THEN "True" ELSE "False"

ModelKwargs_WithLabels(a, useReturnDict) ==
    [k \in TensorArgs \cup {"output_attentions", "output_hidden_states", "return_dict"} |->
        IF k = "output_attentions" THEN a.output_attentions
        ELSE IF k = "output_hidden_states" THEN a.output_hidden_states
        ELSE IF k = "return_dict"
             THEN (IF a.return_dict # "None" THEN a.return_dict
                   ELSE IF useReturnDict THEN "True" ELSE "False")
        ELSE a.tensors[k]]

\* lines 117-127: the keyword arguments of the call self.model(...)
ModelKwargs(a, useReturnDict) ==
    [k \in {"input_ids", "attention_mask", "token_type_ids", "position_ids",
            "head_mask", "inputs_embeds", "output_attentions",
            "output_hidden_states", "return_dict"} |->
        IF k = "output_attentions" THEN a.output_attentions
        ELSE IF k = "output_hidden_states" THEN a.output_hidden_states
        ELSE IF k = "return_dict" THEN ReturnDict(a.return_dict, useReturnDict)
        ELSE a.tensors[k]]

Given(kw, k) == k \in DOMAIN kw /\ kw[k] # "None"

\* the output of the underlying model: a tuple unless return_dict, else a dict
\* holding logits and what was asked for in addition
ModelOutput(kw) ==
    IF kw["return_dict"] # "True" THEN [type |-> "tuple", keys |-> {}]
    ELSE [type |-> "dict",
          keys |-> {"logits"}
                   \cup (IF Given(kw, "labels") THEN {"loss"} ELSE {})
                   \cup (IF kw["output_hidden_states"] = "True" THEN {"hidden_states"} ELSE {})
                   \cup (IF kw["output_attentions"] = "True" THEN {"attentions"} ELSE {})]

\* size of the last dimension of the logits: the active head's label count
LogitsDim(hs, head) == (CHOOSE h \in hs : h.name = head).num_labels

\* line 129: outputs["logits"]
Returned(out, hs, head) ==
    IF out.type = "dict" /\ "logits" \in out.keys
    THEN [kind |-> "tensor", entry |-> "logits", last_dim |-> LogitsDim(hs, head)]
    ELSE [kind |-> "TypeError", entry |-> "", last_dim |-> 0]

\* lines 102-129
Forward(a) ==
    /\ pc = "done"
    /\ fwd_args' = a
    /\ fwd_received' = ModelKwargs(a, config.use_return_dict)
    /\ fwd_out' = Returned(ModelOutput(ModelKwargs(a, config.use_return_dict)),
                           heads, active_head)
    /\ UNCHANGED <<config, ckpt_num_labels, ctorVars, modelVars, fsVars>>

\* ---------------------------------------------------------------- specification
Construct ==
    \/ SelectBaseModel
    \/ CreateBaseModel
    \/ LangAdapter
    \/ TaskAdapter
    \/ Activate
    \/ TrainAdapter

Next == Construct

NextSave ==
    \/ Construct
    \/ \E path \in Paths : SavePretrained(path)

NextForward ==
    \/ Construct
    \/ \E a \in ForwardArgs : Forward(a)

\* the constructor alone
Spec == Init /\ [][Next]_vars

\* the constructor, then any number of save_pretrained calls
SpecSave == Init /\ [][NextSave]_vars

\* the constructor, then any number of forward calls
SpecForward == Init /\ [][NextForward]_vars

\* ---------------------------------------------------------------- properties
\* the names the configuration implies, written out
NerName == config.lang \o "_ner"
LangName == config.lang
Constructed == pc = "done"

CallsOf(op) == {i \in DOMAIN calls : calls[i].op = op}
Registering(name) ==
    {i \in DOMAIN calls :
        calls[i].op \in {"load_adapter", "add_adapter"} /\ calls[i].names = <<name>>}

\* C1: after construction the active adapters are the language and the task
\* adapter when a language-adapter checkpoint is configured, and the task
\* adapter alone otherwise.
C1_ActiveAdaptersFollowMode ==
    Constructed =>
        active_adapters =
            (IF config.lang_adapter_ckpt # "" THEN <<LangName, NerName>> ELSE <<NerName>>)

\* C2: a valid model tag never ends the constructor in an error and builds
\* exactly one base model: BertAdapterModel for mbert / mbert_cased,
\* XLMRobertaAdapterModel for xlm-r, from the config when pretrained_ck is
\* empty and from the checkpoint otherwise.
C2_OneBaseModelPerValidTag ==
    config.model \in ValidModels =>
        /\ pc # "raised"
        /\ pc \notin {"select", "create"} =>
            /\ Len(base_built) = 1
            /\ base_built[1].class =
                   (IF config.model = "xlm-r" THEN "XLMRobertaAdapterModel"
                    ELSE "BertAdapterModel")
            /\ base_built[1].origin =
                   (IF config.pretrained_ck = "" THEN "from_config" ELSE "from_pretrained")

C2_Witness ==
    /\ Constructed
    /\ config.model = "mbert_cased"
    /\ config.pretrained_ck # ""
    /\ base_built = <<[class |-> "BertAdapterModel", origin |-> "from_pretrained"]>>

\* C3: the last dimension of the logits forward returns is config.num_labels.
C3_LogitsDimIsNumLabels ==
    fwd_out.kind = "tensor" => fwd_out.last_dim = config.num_labels

\* C4: with a task-adapter checkpoint the constructor loads it as '<lang>_ner'
\* and adds neither an adapter nor a tagging head; without one it adds the
\* adapter '<lang>_ner' and a tagging head of that name with config.num_labels
\* labels. Either way the name '<lang>_ner' is registered exactly once.
C4_TaskAdapterLoadedOrCreated ==
    pc \in {"activate", "train", "done"} =>
        /\ Cardinality(Registering(NerName)) = 1
        /\ Cardinality({i \in DOMAIN adapters : adapters[i] = NerName}) = 1
        /\ IF config.task_adapter_ckpt # ""
           THEN /\ \E i \in CallsOf("load_adapter") :
                      /\ calls[i].names = <<NerName>>
                      /\ calls[i].arg = config.task_adapter_ckpt
                /\ CallsOf("add_adapter") = {}
                /\ CallsOf("add_tagging_head") = {}
           ELSE /\ \E i \in CallsOf("add_adapter") : calls[i].names = <<NerName>>
                /\ \E i \in CallsOf("add_tagging_head") :
                      /\ calls[i].names = <<NerName>>
                      /\ calls[i].arg = ToString(config.num_labels)
                /\ [name |-> NerName, num_labels |-> config.num_labels] \in heads
                /\ \A i \in CallsOf("load_adapter") : calls[i].names # <<NerName>>

C4_Witness ==
    /\ Constructed
    /\ config.task_adapter_ckpt # ""
    /\ config.lang_adapter_ckpt # ""
    /\ adapters = <<LangName, NerName>>

\* C5: train_adapter is called once, with exactly ['<lang>_ner'], and after
\* construction the task adapter is the only trainable component: not the
\* base model, not the language adapter.
C5_OnlyTaskAdapterTrainable ==
    Constructed =>
        /\ Cardinality(CallsOf("train_adapter")) = 1
        /\ \A i \in CallsOf("train_adapter") : calls[i].names = <<NerName>>
        /\ trainable = {NerName}

C5_Witness ==
    /\ Constructed
    /\ config.lang_adapter_ckpt # ""
    /\ LangName \in Range(adapters)
    /\ trainable = {NerName}

\* C6 as stated: every tensor argument of forward, labels included, reaches
\* the underlying model.
C6_AllTensorInputsDelegated ==
    fwd_out.kind # "none" =>
        \A x \in TensorArgs :
            x \in DOMAIN fwd_received /\ fwd_received[x] = fwd_args.tensors[x]

\* C6 (amended): forward hands input_ids, attention_mask, token_type_ids,
\* position_ids, head_mask and inputs_embeds to the underlying model
\* unchanged, does not hand it labels, and what it returns is the logits
\* entry alone; when the underlying model answers with a tuple it raises.
C6_DelegatesAllButLabels ==
    fwd_out.kind # "none" =>
        /\ \A x \in TensorArgs \ {"labels"} :
              x \in DOMAIN fwd_received /\ fwd_received[x] = fwd_args.tensors[x]
        /\ "labels" \notin DOMAIN fwd_received
        /\ fwd_out.kind \in {"tensor", "TypeError"}
        /\ fwd_out.kind = "tensor" => fwd_out.entry = "logits"
        /\ fwd_out.entry \notin {"loss", "hidden_states", "attentions"}

C6_Witness ==
    /\ fwd_out.kind = "tensor"
    /\ fwd_out.entry = "logits"
    /\ fwd_args.tensors["labels"] # "None"
    /\ fwd_args.tensors["input_ids"] # "None"
    /\ fwd_args.output_hidden_states = "True"

\* the state part of C7: the last save_pretrained call succeeded and wrote the
\* config and the task adapter with its head in '<path>/<lang>' only
\* C7 (state part): a save_pretrained(path) call succeeds whether or not '<path>/<lang>'
\* exists, writes the model config and the adapter '<lang>_ner' with its head
\* in '<path>/<lang>' and nowhere else, never saves the language adapter, and
\* removes nothing that was there.
C7_SaveState ==
    last_save.path # "" =>
        /\ last_save.error = "none"
        /\ last_save.path \o "/" \o config.lang \in fs_dirs
        /\ last_save.written =
               {[dir |-> last_save.path \o "/" \o config.lang, kind |-> "config",
                 name |-> "", with_head |-> FALSE],
                [dir |-> last_save.path \o "/" \o config.lang, kind |-> "adapter",
                 name |-> NerName, with_head |-> TRUE]}
        /\ last_save.written \subseteq fs_files
        /\ \A f \in fs_files : f.name # LangName

\* C7: save_pretrained writes only under '<path>/<lang>', creating it when
\* missing and leaving an existing one, with what it holds, in place, so that
\* repeated calls succeed; the language adapter is never saved.
C7_SaveUnderLangDir ==
    /\ []C7_SaveState
    /\ [][fs_dirs \subseteq fs_dirs' /\ fs_files \subseteq fs_files']_vars

C7_Witness ==
    /\ last_save.path = "out"
    /\ last_save.existed
    /\ last_save.error = "none"
    /\ config.lang_adapter_ckpt # ""
    /\ Cardinality(fs_files) = 4

\* C8: neither assertion-like statement raises: an invalid model tag passes
\* the model-selection else-branch without an AssertionError, and so would any
\* adapter mode at the adapter-mode else-branch.
C8_StringAssertsNeverRaise ==
    /\ err # "AssertionError"
    /\ (config.model \notin ValidModels /\ pc # "select") =>
           (pc \in {"create", "raised"} /\ (pc = "raised" => err = "UnboundLocalError"))
    /\ \A m \in Models : ~AssertRaises(ModelMessage(m))
    /\ \A mode \in 0..2 : ~AssertRaises(ModeMessage(mode))

C8_Witness ==
    /\ config.model \notin ValidModels
    /\ pc = "create"
    /\ err = "none"

\* C9: with an invalid model tag no base model class is bound and the
\* constructor ends in an error at base-model creation, before any adapter
\* call; no object results.
C9_InvalidTagFailsAtCreation ==
    config.model \notin ValidModels =>
        /\ ~Constructed
        /\ basemodel_class = "unbound"
        /\ base_built = <<>>
        /\ calls = <<>>
        /\ adapters = <<>>
        /\ pc \in {"select", "create", "raised"}
        /\ pc = "raised" => err = "UnboundLocalError"

C9_Witness ==
    /\ config.model \notin ValidModels
    /\ pc = "raised"
    /\ err = "UnboundLocalError"
    /\ calls = <<>>

\* C10: every adapter name given to set_active_adapters, train_adapter or
\* save_adapter was registered before by load_adapter or add_adapter; the
\* language adapter is loaded before the task adapter is loaded or added;
\* activation comes after both; and the adapter mode at activation is 1 or 2.
C10_NamesRegisteredBeforeUse ==
    /\ \A i \in CallsOf("set_active_adapters") \cup CallsOf("train_adapter") :
          \A k \in DOMAIN calls[i].names :
              \E j \in Registering(calls[i].names[k]) : j < i
    /\ \A f \in fs_files : f.kind = "adapter" => f.name \in Range(adapters)
    /\ \A i \in Registering(LangName) : \A j \in Registering(NerName) : i < j
    /\ \A i \in CallsOf("set_active_adapters") \cup CallsOf("train_adapter") :
          /\ \A j \in Registering(NerName) : j < i
          /\ Registering(NerName) # {}
          /\ config.lang_adapter_ckpt # "" => Registering(LangName) # {}
    /\ pc \in {"activate", "train", "done"} => adapter_mode \in {1, 2}
    /\ pc \in {"train", "done"} => CallsOf("set_active_adapters") # {}

C10_Witness ==
    /\ Constructed
    /\ adapter_mode = 2
    /\ Registering(LangName) = {1}
    /\ \E f \in fs_files : f.kind = "adapter" /\ f.name = NerName

====
